---- MODULE Spec2Model ----
(***************************************************************************)
(* Model of GraphDb (datahub-web/packages/data-portal/app/utils/graph-db.ts) *)
(* : the leveled lineage graph, its cached index views, the level-bounded  *)
(* traversal getHierarchyNodes and the selection toggle.                   *)
(***************************************************************************)
EXTENDS Integers, Sequences, FiniteSets, TLC

(* ------------------------------ bounds --------------------------------- *)
\* largest number of nodes the graph is grown to
MaxNodes == 3
\* largest number of edges the graph is grown to
MaxEdges == 3

(* ------------------------------ payloads ------------------------------- *)
\* Payload field values: the number 1, the strings "1", "2" and "undefined",
\* and a missing field.
ToStr(v) ==
  CASE v = "n1" -> "1"
    [] v = "s1" -> "1"
    [] v = "s2" -> "2"
    [] v = "sundef" -> "undefined"
    [] v = "none" -> "undefined"

\* payloads the callers pass to addNode, in the order new entities arrive:
\* distinct on k1; on k2 the missing field of the first and the string
\* "undefined" of the second stringify alike
PayloadList ==
  << [k1 |-> "n1", k2 |-> "none"],
     [k1 |-> "s2", k2 |-> "sundef"],
     [k1 |-> "none", k2 |-> "s2"],
     [k1 |-> "s1", k2 |-> "s1"] >>

Payloads == { PayloadList[i] : i \in 1..Len(PayloadList) }

\* the uniqueKeys lists a graph is constructed with; the empty list is the default
KeyLists == { <<>>, <<"k1">>, <<"k1", "k2">> }

(* ------------------------------ state ---------------------------------- *)
VARIABLES
  nodes,        \* Array<INode>: records [id, level, selected, loaded, payload]
  edges,        \* Array<IEdge>: records [from, to]
  uniqueKeys,   \* Array<string>
  idGenerator,  \* next id
  parentsCache, \* cached value of the computed property parentsByNodeId
  childrenCache,\* cached value of the computed property childrenByNodeId
  hung,         \* a call is looping in getHierarchyNodes and never returns
  last          \* the last call made on the graph and what it returned

vars == <<nodes, edges, uniqueKeys, idGenerator, parentsCache, childrenCache, hung, last>>

\* a computed property that has not been read since its dependent key changed
NoCache == [valid |-> FALSE, map |-> <<>>]

SeqToSet(s) == { s[i] : i \in 1..Len(s) }

\* the ids of the nodes of a list
IdsOf(ns) == { ns[i].id : i \in 1..Len(ns) }

\* nodesById: keyBy(nodes, 'id'); the last node with that id wins
NodeById(ns, id) ==
  ns[CHOOSE i \in 1..Len(ns) : ns[i].id = id /\ \A j \in (i+1)..Len(ns) : ns[j].id # id]

\* the selected flag, by its truthiness (undefined and false are FALSE)
IsSel(n) == n.selected

\* edgesByFrom[id]: the edges with that from, in insertion order
EdgesByFrom(es, id) == SelectSeq(es, LAMBDA e : e.from = id)

\* edgesByTo[id]: the edges with that to, in insertion order
EdgesByTo(es, id) == SelectSeq(es, LAMBDA e : e.to = id)

\* parentsByNodeId as the getter computes it: node id -> ids of edge.to
ComputeParents(ns, es) ==
  [ id \in IdsOf(ns) |->
      [ k \in 1..Len(EdgesByFrom(es, id)) |-> EdgesByFrom(es, id)[k].to ] ]

\* childrenByNodeId as the getter computes it: node id -> ids of edge.from
ComputeChildren(ns, es) ==
  [ id \in IdsOf(ns) |->
      [ k \in 1..Len(EdgesByTo(es, id)) |-> EdgesByTo(es, id)[k].from ] ]

\* the value a read of a @computed('nodes') property returns: the cached one
\* when there is one, the freshly computed one otherwise
ReadIndex(cache, fresh) == IF cache.valid THEN cache.map ELSE fresh

(* ------------------------------ findNode ------------------------------- *)
\* uniqueIndexes[key][str]: keyBy keeps the last node with that stringified value
IndexLookup(ns, key, str) ==
  LET hits == { i \in 1..Len(ns) : ToStr(ns[i].payload[key]) = str }
  IN  IF hits = {} THEN 0 ELSE ns[CHOOSE i \in hits : \A j \in hits : j <= i].id

RECURSIVE FindFrom(_, _, _, _)
FindFrom(ns, keys, payload, k) ==
  IF k > Len(keys) THEN 0
  ELSE LET hit == IndexLookup(ns, keys[k], ToStr(payload[keys[k]]))
       IN  IF hit # 0 THEN hit ELSE FindFrom(ns, keys, payload, k + 1)

\* changed: only the first unique key is looked up
findNodeFirstKey(ns, keys, payload) ==
  IF keys = <<>> THEN 0 ELSE IndexLookup(ns, keys[1], ToStr(payload[keys[1]]))

\* findNode: the id of the node found, 0 for undefined
findNode(ns, keys, payload) == FindFrom(ns, keys, payload, 1)

(* --------------------------- getHierarchyNodes ------------------------- *)
getIsUpstream(n) == n.level < 0

RECURSIVE Flatten(_)
Flatten(ss) == IF ss = <<>> THEN <<>> ELSE Head(ss) \o Flatten(Tail(ss))

\* changed: a node at the stop level is expanded like any other
ExpandNodesPastStop(ns, idx, current, stopAtLevel) ==
  Flatten([ k \in 1..Len(current) |-> idx[current[k]] ])

\* one pass of the reduce over currentNodes
ExpandNodes(ns, idx, current, stopAtLevel) ==
  Flatten([ k \in 1..Len(current) |->
              IF NodeById(ns, current[k]).level # stopAtLevel
              THEN idx[current[k]] ELSE <<>> ])

\* changed: a node that was explored before is not explored again
RECURSIVE HierarchyLoopVisited(_, _, _, _, _, _)
HierarchyLoopVisited(ns, idx, explored, current, stopAtLevel, passes) ==
  IF current = <<>> THEN [diverges |-> FALSE, seq |-> explored]
  ELSE IF passes = 0 THEN [diverges |-> TRUE, seq |-> <<>>]
  ELSE LET next == SelectSeq(ExpandNodes(ns, idx, current, stopAtLevel),
                             LAMBDA x : x \notin SeqToSet(explored))
       IN  HierarchyLoopVisited(ns, idx, explored \o next, next, stopAtLevel, passes - 1)

\* the while loop; a frontier that is still non-empty after as many passes
\* as there are nodes lies on a cycle of expanded nodes and the loop never ends
RECURSIVE HierarchyLoop(_, _, _, _, _, _)
HierarchyLoop(ns, idx, explored, current, stopAtLevel, passes) ==
  IF current = <<>> THEN [diverges |-> FALSE, seq |-> explored]
  ELSE IF passes = 0 THEN [diverges |-> TRUE, seq |-> <<>>]
  ELSE LET next == ExpandNodes(ns, idx, current, stopAtLevel)
       IN  HierarchyLoop(ns, idx, explored \o next, next, stopAtLevel, passes - 1)

\* getHierarchyNodes over given index views: [diverges, seq of node ids]
getHierarchyNodes(ns, pidx, cidx, id, up, stopAtLevel) ==
  HierarchyLoop(ns, IF up THEN pidx ELSE cidx, <<id>>, <<id>>, stopAtLevel, Len(ns))

\* the caches after a getHierarchyNodes call: the index is read (and cached)
\* only if some node is expanded, which the seed decides
CacheAfterRead(cache, fresh, wasRead) ==
  IF wasRead THEN [valid |-> TRUE, map |-> ReadIndex(cache, fresh)] ELSE cache

(* ------------------------------ setNodeAttrs --------------------------- *)
\* changed: the patched node is rebuilt with level 0
setSelectedResetsLevel(ns, id, v) ==
  [ i \in 1..Len(ns) |->
      IF ns[i].id = id THEN [ns[i] EXCEPT !.selected = v, !.level = 0] ELSE ns[i] ]

\* changed: the patched node is rebuilt from the patch alone and loses the
\* fields of its payload
setSelectedDropsPayload(ns, id, v) ==
  [ i \in 1..Len(ns) |->
      IF ns[i].id = id
      THEN [ns[i] EXCEPT !.selected = v, !.payload = [k1 |-> "none", k2 |-> "none"]]
      ELSE ns[i] ]

\* setNodeAttrs(id, {selected: v})
setSelected(ns, id, v) ==
  [ i \in 1..Len(ns) |-> IF ns[i].id = id THEN [ns[i] EXCEPT !.selected = v] ELSE ns[i] ]

\* changed: only the first node of the list is patched
setSelectedAllFirstOnly(ns, ids, v) ==
  IF ids = <<>> THEN ns ELSE setSelected(ns, Head(ids), v)

\* the forEach loops of toggle: setNodeAttrs(id, {selected: v}) for every id
\* of a list, in order
RECURSIVE setSelectedAll(_, _, _)
setSelectedAll(ns, ids, v) ==
  IF ids = <<>> THEN ns ELSE setSelectedAll(setSelected(ns, Head(ids), v), Tail(ids), v)

\* changed: the test of the node's id is inverted
setNodeAttrsInvertedTest(ns, id, attrs) ==
  [ i \in 1..Len(ns) |->
      IF ns[i].id # id
      THEN [ f \in DOMAIN ns[i] |-> IF f \in DOMAIN attrs THEN attrs[f] ELSE ns[i][f] ]
      ELSE ns[i] ]

\* setNodeAttrs(id, attrs) on a nodes list: the list afterwards; attrs is a
\* record of some of the fields of a node
setNodeAttrs(ns, id, attrs) ==
  [ i \in 1..Len(ns) |->
      IF ns[i].id = id
      THEN [ f \in DOMAIN ns[i] |-> IF f \in DOMAIN attrs THEN attrs[f] ELSE ns[i][f] ]
      ELSE ns[i] ]

(* ------------------------------ addEdge -------------------------------- *)
\* changed: an edge of the same two nodes in the other direction counts as
\* already existing
addEdgeToEitherWay(es, parentId, childId) ==
  IF \E k \in 1..Len(es) :
       \/ (es[k].from = childId /\ es[k].to = parentId)
       \/ (es[k].from = parentId /\ es[k].to = childId)
  THEN es ELSE Append(es, [from |-> childId, to |-> parentId])

\* addEdge(parent, child) on an edges list: the list afterwards
addEdgeTo(es, parentId, childId) ==
  LET edge == [from |-> childId, to |-> parentId]
      fromIndex == EdgesByFrom(es, edge.from)
      alreadyExists == \E k \in 1..Len(fromIndex) : fromIndex[k].to = edge.to
  IN  IF alreadyExists THEN es ELSE Append(es, edge)

(* ------------------------------ addNode -------------------------------- *)
\* changed: upstream raises the level and downstream lowers it
newLevelInverted(ns, parent, upstream) ==
  IF parent # 0
  THEN IF upstream THEN NodeById(ns, parent).level + 1 ELSE NodeById(ns, parent).level - 1
  ELSE 0

\* the level addNode gives a node it creates; parent = 0 stands for no parent
newLevel(ns, parent, upstream) ==
  IF parent # 0
  THEN IF upstream THEN NodeById(ns, parent).level - 1 ELSE NodeById(ns, parent).level + 1
  ELSE 0

\* changed: the computed level is dropped and the node is created at level 0
makeNodeAtRoot(id, level, payload) ==
  [id |-> id, level |-> 0, selected |-> FALSE, loaded |-> FALSE, payload |-> payload]

\* the node addNode creates
makeNode(id, level, payload) ==
  [id |-> id, level |-> level, selected |-> FALSE, loaded |-> FALSE, payload |-> payload]

\* the id the next created node gets, and the generator afterwards
nextId(gen) == gen

\* changed: the generator is not advanced
bumpIdStuck(gen) == gen

bumpId(gen) == gen + 1

\* changed: the two nodes are passed in the signature's order
edgeArgsSwapped(newId, parent, upstream) ==
  IF upstream THEN <<parent, newId>> ELSE <<newId, parent>>

\* the two arguments addNode passes to addEdge(parent, child), in that order
edgeArgs(newId, parent, upstream) ==
  LET edgeParent == IF upstream THEN parent ELSE newId
      edgeChild == IF upstream THEN newId ELSE parent
  IN  <<edgeChild, edgeParent>>

\* the record of a call; fields a call does not use keep these values
NoCall ==
  [op |-> "init", id |-> 0, created |-> FALSE, threw |-> FALSE]

(* --------------------------------- toggle ------------------------------ *)
\* the ids of a list of nodes that satisfy a level test, in list order
upstreamNodes(ns) ==
  LET f == SelectSeq(ns, LAMBDA n : n.level < 0) IN [k \in 1..Len(f) |-> f[k].id]

downstreamNodes(ns) ==
  LET f == SelectSeq(ns, LAMBDA n : n.level > 0) IN [k \in 1..Len(f) |-> f[k].id]

\* changed: the root case unselects the downstream nodes only
allNodesDownstreamOnly(ns) == downstreamNodes(ns)

allNodes(ns) == [k \in 1..Len(ns) |-> ns[k].id]

\* changed: a select operation walks away from the root as an unselect does
toggleDirectionSame(selected, upstream) == upstream

\* changed: an unselect operation walks toward the root as a select does
toggleDirectionTowardRoot(selected, upstream) == ~upstream

\* the direction toggle walks for a node: away from the root to unselect,
\* toward the root to select
toggleDirection(selected, upstream) == IF selected THEN upstream ELSE ~upstream

\* changed: a select operation unselects nothing first
sideToUnselectNone(ns, upstream) == <<>>

\* the nodes toggle unselects before it selects, on a select operation
sideToUnselect(ns, upstream) == IF upstream THEN upstreamNodes(ns) ELSE downstreamNodes(ns)

\* changed: the last patch always selects
finalSelectedAlways(selected) == TRUE

\* the value of the last patch toggle applies to the node itself
finalSelected(selected) == ~selected

\* toggle(id) for an id of the graph, over given index views:
\* [diverges, walked, nodes]
toggleResult(ns, pidx, cidx, id) ==
  LET node == NodeById(ns, id)
      selected == IsSel(node)
      upstream == getIsUpstream(node)
      walked == ~(selected /\ node.level = 0)
      h == IF walked
           THEN getHierarchyNodes(ns, pidx, cidx, id, toggleDirection(selected, upstream), 0)
           ELSE [diverges |-> FALSE, seq |-> <<>>]
      toUnselect == IF selected
                    THEN IF node.level = 0 THEN allNodes(ns) ELSE h.seq
                    ELSE sideToUnselect(ns, upstream)
      toSelect == IF selected THEN <<>> ELSE h.seq
      ns1 == setSelectedAll(ns, toUnselect, FALSE)
      ns2 == setSelectedAll(ns1, toSelect, TRUE)
  IN  [diverges |-> h.diverges,
       nodes |-> IF h.diverges THEN ns ELSE setSelected(ns2, id, finalSelected(selected))]

\* the index views a call reads in the current state
ParentsNow == ReadIndex(parentsCache, ComputeParents(nodes, edges))
ChildrenNow == ReadIndex(childrenCache, ComputeChildren(nodes, edges))

Init ==
  /\ nodes = <<>>
  /\ edges = <<>>
  /\ uniqueKeys \in KeyLists
  /\ idGenerator = 1
  /\ parentsCache = NoCache
  /\ childrenCache = NoCache
  /\ hung = FALSE
  /\ last = NoCall

\* addNode(payload, parentNode, upstream); parent = 0 stands for no parentNode
AddNode(payload, parent, upstream) ==
  \E found \in {findNode(nodes, uniqueKeys, payload)} :
    LET created == found = 0
        newId == IF created THEN nextId(idGenerator) ELSE found
        nodes1 == IF created
                  THEN Append(nodes, makeNode(newId, newLevel(nodes, parent, upstream), payload))
                  ELSE nodes
        args == edgeArgs(newId, parent, upstream)
    IN  \E edges1 \in {IF parent # 0 THEN addEdgeTo(edges, args[1], args[2]) ELSE edges} :
          /\ ~hung
          /\ created => Len(nodes) < MaxNodes
          /\ Len(edges1) <= MaxEdges
          /\ nodes' = nodes1
          /\ idGenerator' = IF created THEN bumpId(idGenerator) ELSE idGenerator
          /\ edges' = edges1
          /\ parentsCache' = IF created THEN NoCache ELSE parentsCache
          /\ childrenCache' = IF created THEN NoCache ELSE childrenCache
          /\ last' = [NoCall EXCEPT !.op = "addNode", !.created = created, !.id = newId]
          /\ UNCHANGED <<uniqueKeys, hung>>

\* addEdge(parent, child) with two nodes of the graph
AddEdge(parent, child) ==
  \E edges1 \in {addEdgeTo(edges, parent, child)} :
    /\ ~hung
    /\ Len(edges1) <= MaxEdges
    /\ edges' = edges1
    /\ last' = [NoCall EXCEPT !.op = "addEdge"]
    /\ UNCHANGED <<nodes, uniqueKeys, idGenerator, parentsCache, childrenCache, hung>>

\* whether toggle(id) reads parentsByNodeId (up) or childrenByNodeId (~up):
\* it does when getHierarchyNodes expands its seed
toggleReads(ns, id, up) ==
  LET node == NodeById(ns, id)
  IN  /\ node.level # 0
      /\ toggleDirection(IsSel(node), getIsUpstream(node)) = up

\* toggle(id) with the id of a node of the graph
Toggle(id) ==
  /\ ~hung
  /\ id \in IdsOf(nodes)
  /\ \E r \in {toggleResult(nodes, ParentsNow, ChildrenNow, id)} :
       /\ nodes' = r.nodes
       /\ hung' = r.diverges
       /\ parentsCache' =
            IF r.diverges
            THEN CacheAfterRead(parentsCache, ComputeParents(nodes, edges), toggleReads(nodes, id, TRUE))
            ELSE NoCache
       /\ childrenCache' =
            IF r.diverges
            THEN CacheAfterRead(childrenCache, ComputeChildren(nodes, edges), toggleReads(nodes, id, FALSE))
            ELSE NoCache
  /\ last' = [NoCall EXCEPT !.op = "toggle", !.id = id]
  /\ UNCHANGED <<edges, uniqueKeys, idGenerator>>

\* toggle(id) with an id no node has: reading selected of undefined throws
ToggleUnknown(id) ==
  /\ ~hung
  /\ id \notin IdsOf(nodes)
  /\ last' = [NoCall EXCEPT !.op = "toggle", !.id = id, !.threw = TRUE]
  /\ UNCHANGED <<nodes, edges, uniqueKeys, idGenerator, parentsCache, childrenCache, hung>>

\* a caller's getHierarchyNodes(node, up, stopAtLevel) with a node of the graph
GetHierarchyNodes(id, up, stopAtLevel) ==
  /\ ~hung
  /\ id \in IdsOf(nodes)
  /\ \E h \in {getHierarchyNodes(nodes, ParentsNow, ChildrenNow, id, up, stopAtLevel)} :
       hung' = h.diverges
  /\ LET wasRead == NodeById(nodes, id).level # stopAtLevel
     IN  /\ parentsCache' = CacheAfterRead(parentsCache, ComputeParents(nodes, edges), wasRead /\ up)
         /\ childrenCache' = CacheAfterRead(childrenCache, ComputeChildren(nodes, edges), wasRead /\ ~up)
  /\ last' = [NoCall EXCEPT !.op = "getHierarchyNodes", !.id = id]
  /\ UNCHANGED <<nodes, edges, uniqueKeys, idGenerator>>

\* a caller's setNodeAttrs(id, attrs), with the id of a node or any other id:
\* the nodes property is set in both cases
SetNodeAttrs(id, attrs) ==
  /\ ~hung
  /\ nodes' = setNodeAttrs(nodes, id, attrs)
  /\ parentsCache' = NoCache
  /\ childrenCache' = NoCache
  /\ last' = [NoCall EXCEPT !.op = "setNodeAttrs", !.id = id]
  /\ UNCHANGED <<edges, uniqueKeys, idGenerator, hung>>

\* the patches callers pass to setNodeAttrs
Patches == { [loaded |-> TRUE], [selected |-> TRUE, loaded |-> TRUE] }

\* the stop levels callers pass to getHierarchyNodes
StopLevels == {0, 1}

\* the payloads of a run in which new entities arrive in PayloadList order:
\* every payload that finds a node, and the first one that finds none
ArrivingPayloads ==
  { PayloadList[i] : i \in { j \in 1..Len(PayloadList) :
      \/ findNode(nodes, uniqueKeys, PayloadList[j]) # 0
      \/ \A k \in 1..(j - 1) : findNode(nodes, uniqueKeys, PayloadList[k]) # 0 } }

\* an id no node has
UnknownIds == {idGenerator}

\* addNode, addEdge and toggle calls, new entities arriving in PayloadList order
Next ==
  \/ \E p \in ArrivingPayloads, parent \in {0} \cup IdsOf(nodes), up \in BOOLEAN : AddNode(p, parent, up)
  \/ \E parent \in IdsOf(nodes), child \in IdsOf(nodes) : AddEdge(parent, child)
  \/ \E id \in IdsOf(nodes) : Toggle(id)
  \/ \E id \in UnknownIds : ToggleUnknown(id)

Spec == Init /\ [][Next]_vars

\* the graph as addNode and addEdge build it, before anything is selected
NextBuild ==
  \/ \E p \in ArrivingPayloads, parent \in {0} \cup IdsOf(nodes), up \in BOOLEAN : AddNode(p, parent, up)
  \/ \E parent \in IdsOf(nodes), child \in IdsOf(nodes) : AddEdge(parent, child)

SpecBuild == Init /\ [][NextBuild]_vars

\* building the graph and reading its hierarchy in between
NextRead ==
  \/ \E p \in ArrivingPayloads, parent \in {0} \cup IdsOf(nodes), up \in BOOLEAN : AddNode(p, parent, up)
  \/ \E parent \in IdsOf(nodes), child \in IdsOf(nodes) : AddEdge(parent, child)
  \/ \E id \in IdsOf(nodes), up \in BOOLEAN, s \in StopLevels : GetHierarchyNodes(id, up, s)

SpecRead == Init /\ [][NextRead]_vars

\* addNode and toggle calls only: every edge comes from an addNode call
NextNodes ==
  \/ \E p \in ArrivingPayloads, parent \in {0} \cup IdsOf(nodes), up \in BOOLEAN : AddNode(p, parent, up)
  \/ \E id \in IdsOf(nodes) : Toggle(id)

SpecNodes == Init /\ [][NextNodes]_vars

\* addNode calls, attribute patches with known and unknown ids, and toggle
\* calls with unknown ids
NextAttrs ==
  \/ \E p \in ArrivingPayloads, parent \in {0} \cup IdsOf(nodes), up \in BOOLEAN : AddNode(p, parent, up)
  \/ \E id \in IdsOf(nodes) \cup UnknownIds, attrs \in Patches : SetNodeAttrs(id, attrs)
  \/ \E id \in UnknownIds : ToggleUnknown(id)

SpecAttrs == Init /\ [][NextAttrs]_vars

\* addNode(payload, parentNode, upstream) with a payload no node matches:
\* the first node without a parent, every other under a node of the graph
AddNewNode(payload, parent, upstream) ==
  /\ findNode(nodes, uniqueKeys, payload) = 0
  /\ (parent = 0) = (nodes = <<>>)
  /\ AddNode(payload, parent, upstream)

\* a graph built only by addNode calls that create a node, made while no
\* node is selected, and toggle calls
NextTree ==
  \/ \E p \in ArrivingPayloads, parent \in {0} \cup IdsOf(nodes), up \in BOOLEAN :
       /\ (\A i \in 1..Len(nodes) : ~IsSel(nodes[i]))
       /\ AddNewNode(p, parent, up)
  \/ \E id \in IdsOf(nodes) : Toggle(id)

SpecTree == Init /\ [][NextTree]_vars

(* ======================= properties of the graph ======================= *)
\* the ids of the selected nodes of a list
SelectedIds(ns) == { ns[i].id : i \in { j \in 1..Len(ns) : IsSel(ns[j]) } }

LevelOf(ns, id) == NodeById(ns, id).level

\* the nodes on the side of a node: upstream of the root for an upstream
\* node, downstream of it for any other
SameSide(ns, id) ==
  IF LevelOf(ns, id) < 0
  THEN { m \in IdsOf(ns) : LevelOf(ns, m) < 0 }
  ELSE { m \in IdsOf(ns) : LevelOf(ns, m) > 0 }

\* the graph A (root), B (upstream of A), C (downstream of A)
FixtureGraph ==
  /\ Len(nodes) = 3
  /\ nodes[1].id = 1 /\ nodes[1].level = 0
  /\ nodes[2].id = 2 /\ nodes[2].level = -1
  /\ nodes[3].id = 3 /\ nodes[3].level = 1
  /\ edges = << [from |-> 1, to |-> 2], [from |-> 3, to |-> 1] >>

\* a step that is a toggle(id) call that returns
ToggleReturns(id) == last'.op = "toggle" /\ last'.id = id /\ ~hung' /\ Toggle(id)

Exclusive ==
  \A a \in SelectedIds(nodes), b \in SelectedIds(nodes) :
    (a # b /\ LevelOf(nodes, a) # 0) => LevelOf(nodes, a) # LevelOf(nodes, b)

\* every node off the root level has at most one one-hop neighbour toward
\* the root (a parent on the downstream side, a child on the upstream side)
\* and that neighbour is one level nearer the root
TreeLike ==
  \A n \in IdsOf(nodes) :
    LET ps == ComputeParents(nodes, edges)[n]
        cs == ComputeChildren(nodes, edges)[n]
    IN  /\ LevelOf(nodes, n) > 0 =>
             (Len(ps) <= 1 /\ \A k \in 1..Len(ps) : LevelOf(nodes, ps[k]) = LevelOf(nodes, n) - 1)
        /\ LevelOf(nodes, n) < 0 =>
             (Len(cs) <= 1 /\ \A k \in 1..Len(cs) : LevelOf(nodes, cs[k]) = LevelOf(nodes, n) + 1)

\* C2 as stated: on every graph built by addNode calls, after any toggle
\* calls, no two distinct selected nodes on one side have the same level.
C2_Original == Exclusive

\* C2 (amended): on a graph built by addNode calls in which every node off
\* the root level has at most one neighbour toward the root, one level nearer
\* the root, no two distinct selected nodes on one side have the same level.
C2_ExclusiveOnTrees == TreeLike => Exclusive

\* a root with two downstream children: after toggles the second child and
\* the root are selected, the first child is not
C2_Witness ==
  /\ TreeLike /\ Len(nodes) = 3
  /\ LevelOf(nodes, 1) = 0 /\ LevelOf(nodes, 2) = 1 /\ LevelOf(nodes, 3) = 1
  /\ last.op = "toggle" /\ last.id = 3 /\ ~hung
  /\ SelectedIds(nodes) = {1, 3}

\* the selected nodes after a second toggle(id) follows a toggle(id) step
\* that returned; a call that never returns yields no selection
SecondToggle(id) ==
  toggleResult(nodes', ReadIndex(parentsCache', ComputeParents(nodes', edges')),
               ReadIndex(childrenCache', ComputeChildren(nodes', edges')), id)

\* C3 as stated: toggle(id) twice in succession leaves every node's selected
\* flag as it was before the first call.
C3_Original ==
  [][ \A id \in IdsOf(nodes) :
        (ToggleReturns(id) /\ ~SecondToggle(id).diverges) =>
          SelectedIds(SecondToggle(id).nodes) = SelectedIds(nodes)
    ]_vars

\* C3 (amended): toggle(id) twice in succession, both calls returning, leaves
\* the selected flag of the toggled node itself as it was before the first call.
C3_OwnFlagRoundTrip ==
  [][ \A id \in IdsOf(nodes) :
        (ToggleReturns(id) /\ ~SecondToggle(id).diverges) =>
          (id \in SelectedIds(SecondToggle(id).nodes)) = (id \in SelectedIds(nodes))
    ]_vars

\* toggle(C) twice on the graph A, B, C from nothing selected: C is
\* unselected again, A stays selected
C3_Witness ==
  /\ FixtureGraph
  /\ last.op = "toggle" /\ last.id = 3 /\ ~last.threw /\ ~hung
  /\ SelectedIds(nodes) = {1}

\* C4: toggle(id) on a selected node of level 0 leaves no node selected.
C4_RootClear ==
  [][ \A id \in IdsOf(nodes) :
        (ToggleReturns(id) /\ LevelOf(nodes, id) = 0 /\ IsSel(NodeById(nodes, id))) =>
          SelectedIds(nodes') = {}
    ]_vars

\* the state after toggle(A) on the graph A, B, C: the root, which a toggle
\* only unselects when it was selected, and every other node are unselected
C4_Witness ==
  /\ FixtureGraph
  /\ last.op = "toggle" /\ last.id = 1 /\ ~last.threw /\ ~hung
  /\ SelectedIds(nodes) = {}

(* ------------------------- addNode and addEdge ------------------------- *)
\* a step that is the call addNode(p, parent, up)
AddNodeStep(p, parent, up) == last'.op = "addNode" /\ AddNode(p, parent, up)

\* a step that is the call addNode(p, parent, up) and creates a node
CreateStep(p, parent, up) ==
  /\ last'.op = "addNode" /\ last'.created
  /\ nodes'[Len(nodes')].payload = p
  /\ AddNode(p, parent, up)

\* the node of a list at a unique key has the stringified value of a payload
MatchesOn(n, key, p) == ToStr(n.payload[key]) = ToStr(p[key])

\* some node of the graph matches a payload on some unique key
Matches(p) ==
  \E i \in 1..Len(nodes), k \in 1..Len(uniqueKeys) : MatchesOn(nodes[i], uniqueKeys[k], p)

\* no two nodes have the same value for a unique key
UniqueOnKeys(ns) ==
  \A i \in 1..Len(ns), j \in 1..Len(ns), k \in 1..Len(uniqueKeys) :
    i # j => ~MatchesOn(ns[i], uniqueKeys[k], ns[j].payload)

\* C5: an addNode call whose payload matches a node of the graph on a unique
\* key, with or without a parent, returns a node of the graph that matches
\* it, leaves the nodes list (so every level) and idGenerator unchanged; and
\* no two nodes ever have the same value for a unique key.
C5_Dedup ==
  [][ /\ \A p \in Payloads, parent \in {0} \cup IdsOf(nodes), up \in BOOLEAN :
           (AddNodeStep(p, parent, up) /\ Matches(p)) =>
             /\ nodes' = nodes
             /\ idGenerator' = idGenerator
             /\ ~last'.created
             /\ last'.id \in IdsOf(nodes)
             /\ \E k \in 1..Len(uniqueKeys) :
                  MatchesOn(NodeById(nodes, last'.id), uniqueKeys[k], p)
      /\ UniqueOnKeys(nodes')
    ]_vars

\* with the keys k1, k2: two nodes, and the last addNode call returned the
\* first of them for a payload it hit, with a parent, adding only an edge
C5_Witness ==
  /\ uniqueKeys = <<"k1", "k2">> /\ Len(nodes) = 2
  /\ last.op = "addNode" /\ ~last.created /\ last.id = 1
  /\ idGenerator = 3
  /\ Len(edges) = 2

\* C6: the ids of the nodes in creation order are 1, 2, ..., n and
\* idGenerator is n + 1, after any addNode, addEdge and toggle calls; no call
\* removes a node or changes the id of one.
C6_IdsInOrder ==
  [][ /\ \A i \in 1..Len(nodes') : nodes'[i].id = i
      /\ idGenerator' = Len(nodes') + 1
      /\ Len(nodes') >= Len(nodes)
      /\ \A i \in 1..Len(nodes) : nodes'[i].id = nodes[i].id
    ]_vars

\* three nodes with the ids 1, 2, 3, then an addNode call that hit one of
\* them, and a toggle: the generator is still 4
C6_Witness ==
  /\ Len(nodes) = 3 /\ idGenerator = 4
  /\ nodes[1].id = 1 /\ nodes[2].id = 2 /\ nodes[3].id = 3
  /\ Len(edges) = 3
  /\ last.op = "toggle" /\ ~last.threw

\* the edge a step appended to the edges list
NewEdge == edges'[Len(edges')]

\* the distance of a node from the root level
Distance(ns, id) == IF LevelOf(ns, id) < 0 THEN 0 - LevelOf(ns, id) ELSE LevelOf(ns, id)

\* C7 as stated: the edge addNode creates between a node and the parent
\* passed to it has the node further from the root as its from and the node
\* nearer the root as its to, upstream as well as downstream.
C7_Original ==
  [][ \A p \in Payloads, parent \in IdsOf(nodes), up \in BOOLEAN :
        (AddNodeStep(p, parent, up) /\ Len(edges') > Len(edges)) =>
          Distance(nodes', NewEdge.from) > Distance(nodes', NewEdge.to)
    ]_vars

\* C7 (amended): the edge addNode creates between a node and the parent
\* passed to it runs from the node to the parent when upstream is false and
\* from the parent to the node when upstream is true; for a node the call
\* creates, from is the node further from the root when the parent is not
\* upstream of the root and upstream is false, and the node nearer the root
\* when the parent is not downstream of the root and upstream is true.
C7_EdgeOrientation ==
  [][ \A p \in Payloads, parent \in IdsOf(nodes), up \in BOOLEAN :
        (AddNodeStep(p, parent, up) /\ Len(edges') > Len(edges)) =>
          /\ edges' = Append(edges, NewEdge)
          /\ NewEdge.from = (IF up THEN parent ELSE last'.id)
          /\ NewEdge.to = (IF up THEN last'.id ELSE parent)
          /\ (last'.created /\ ~up /\ LevelOf(nodes, parent) >= 0) =>
               Distance(nodes', NewEdge.from) > Distance(nodes', NewEdge.to)
          /\ (last'.created /\ up /\ LevelOf(nodes, parent) <= 0) =>
               Distance(nodes', NewEdge.from) < Distance(nodes', NewEdge.to)
    ]_vars

\* a node just created upstream of the root: the last edge runs from the
\* root to it
C7_Witness ==
  /\ last.op = "addNode" /\ last.created /\ last.id = 2
  /\ Len(nodes) = 2 /\ LevelOf(nodes, 1) = 0 /\ LevelOf(nodes, 2) = -1
  /\ edges = << [from |-> 1, to |-> 2] >>

\* C8 as stated: for the edge of an addNode call that creates a node,
\* level(from) = level(to) + 1 when the node is created with towardRoot
\* false and level(from) = level(to) - 1 when it is created with towardRoot
\* true.
C8_Original ==
  [][ \A p \in Payloads, parent \in IdsOf(nodes), up \in BOOLEAN :
        CreateStep(p, parent, up) =>
          /\ Len(edges') = Len(edges) + 1
          /\ LevelOf(nodes', NewEdge.from) =
               (IF up THEN LevelOf(nodes', NewEdge.to) - 1 ELSE LevelOf(nodes', NewEdge.to) + 1)
    ]_vars

\* C8 (amended): for the edge of an addNode call that creates a node,
\* level(from) = level(to) + 1 at creation time, with towardRoot true as
\* well as false.
C8_LevelConsistency ==
  [][ \A p \in Payloads, parent \in IdsOf(nodes), up \in BOOLEAN :
        CreateStep(p, parent, up) =>
          /\ Len(edges') = Len(edges) + 1
          /\ {NewEdge.from, NewEdge.to} = {parent, last'.id}
          /\ LevelOf(nodes', NewEdge.from) = LevelOf(nodes', NewEdge.to) + 1
    ]_vars

\* a third node just created with towardRoot true under an upstream node:
\* it is the to of the last edge, one level below its from
C8_Witness ==
  /\ last.op = "addNode" /\ last.created /\ last.id = 3
  /\ Len(nodes) = 3 /\ LevelOf(nodes, 2) = -1 /\ LevelOf(nodes, 3) = -2
  /\ Len(edges) = 2 /\ edges[2] = [from |-> 2, to |-> 3]

\* C9: a node addNode creates has level 0 without a parent, parent.level - 1
\* with a parent and upstream true, parent.level + 1 with a parent and
\* upstream false; no addNode, addEdge or toggle call changes a level.
C9_LevelAssignment ==
  [][ /\ \A p \in Payloads, parent \in {0} \cup IdsOf(nodes), up \in BOOLEAN :
           CreateStep(p, parent, up) =>
             /\ Len(nodes') = Len(nodes) + 1
             /\ nodes'[Len(nodes')].level =
                  (IF parent = 0 THEN 0
                   ELSE IF up THEN LevelOf(nodes, parent) - 1 ELSE LevelOf(nodes, parent) + 1)
      /\ \A i \in 1..Len(nodes) : nodes'[i].level = nodes[i].level
    ]_vars

\* nodes at the levels 0, -1 and 1 after a toggle that selected two of them
C9_Witness ==
  /\ FixtureGraph
  /\ last.op = "toggle" /\ ~last.threw /\ ~hung
  /\ SelectedIds(nodes) = {1, 2}

\* no two edges of a list have the same from and the same to
NoDuplicateEdge(es) ==
  \A i \in 1..Len(es), j \in 1..Len(es) :
    i # j => ~(es[i].from = es[j].from /\ es[i].to = es[j].to)

\* C10: the edges list never holds two edges with the same from and the same
\* to, no edge is ever removed, and addEdge appends an edge that is not in
\* the list even when the edge with from and to swapped is.
C10_EdgeUniqueness ==
  [][ /\ NoDuplicateEdge(edges')
      /\ Len(edges') >= Len(edges)
      /\ \A i \in 1..Len(edges) : edges'[i] = edges[i]
      /\ \A parent \in IdsOf(nodes), child \in IdsOf(nodes) :
           (last'.op = "addEdge" /\ AddEdge(parent, child)) =>
             edges' = IF [from |-> child, to |-> parent] \in SeqToSet(edges)
                      THEN edges
                      ELSE Append(edges, [from |-> child, to |-> parent])
    ]_vars

\* an addEdge call has just added the reverse of the edge of the second node
C10_Witness ==
  /\ last.op = "addEdge"
  /\ edges = << [from |-> 2, to |-> 1], [from |-> 1, to |-> 2] >>

(* ------------------------------ index views ---------------------------- *)
\* C11: after every mutating call the next read of parentsByNodeId[id] is
\* the current edges with from = id mapped through to, and the next read of
\* childrenByNodeId[id] the current edges with to = id mapped through from,
\* for every node id, also when a call adds an edge without changing the
\* nodes list after the maps have been read once.
C11_IndexConsistency ==
  /\ DOMAIN ParentsNow = IdsOf(nodes)
  /\ DOMAIN ChildrenNow = IdsOf(nodes)
  /\ \A id \in IdsOf(nodes) :
       /\ ParentsNow[id] = ComputeParents(nodes, edges)[id]
       /\ ChildrenNow[id] = ComputeChildren(nodes, edges)[id]

(* ------------------------------ unknown ids ---------------------------- *)
\* C12: toggle(id) with an id no node has fails with an error before any
\* node is patched, and setNodeAttrs(id, patch) with such an id changes
\* nothing: every node, the node order, the edges and idGenerator are the
\* same after the call as before it.
C12_UnknownId ==
  [][ /\ (last'.op = "toggle" /\ last'.id \notin IdsOf(nodes)) =>
           /\ last'.threw
           /\ nodes' = nodes /\ edges' = edges /\ idGenerator' = idGenerator
      /\ (last'.op = "setNodeAttrs" /\ last'.id \notin IdsOf(nodes)) =>
           /\ ~last'.threw
           /\ nodes' = nodes /\ edges' = edges /\ idGenerator' = idGenerator
    ]_vars

\* a setNodeAttrs call with the id 4 on a graph of three nodes: earlier
\* patches left the second loaded and selected, the third loaded only
C12_Witness ==
  /\ last.op = "setNodeAttrs" /\ last.id = 4
  /\ IdsOf(nodes) = {1, 2, 3} /\ Len(edges) = 2
  /\ ~nodes[1].selected /\ ~nodes[1].loaded
  /\ nodes[2].selected /\ nodes[2].loaded
  /\ ~nodes[3].selected /\ nodes[3].loaded

(* ------------------------------ selection ------------------------------ *)
\* C13: after toggle(id) on an unselected node N the selected nodes of the
\* whole graph are exactly N and its ancestor path back to the root; every
\* other node, also one on the opposite side of the root that was selected
\* before the call, is unselected. Stated for graphs with one node of level
\* 0 (addNode's comment asks for a parent for every node after the first).
C13_SelectUnselectsOthers ==
  [][ \A id \in IdsOf(nodes) :
        (/\ \A m \in IdsOf(nodes) : LevelOf(nodes, m) = 0 => m = 1
         /\ ToggleReturns(id) /\ ~IsSel(NodeById(nodes, id))) =>
          SelectedIds(nodes') =
            {id} \cup SeqToSet(getHierarchyNodes(nodes, ParentsNow, ChildrenNow, id,
                                                 ~(LevelOf(nodes, id) < 0), 0).seq)
    ]_vars

\* every edge runs from a node to a node one level below it
LeveledEdges(ns, es) ==
  \A k \in 1..Len(es) : LevelOf(ns, es[k].from) = LevelOf(ns, es[k].to) + 1

\* C14: toggle(id) on a selected node N whose level is not 0 leaves N and
\* every node of getHierarchyNodes(N, N.level < 0, 0) unselected and every
\* other node as it was; where every edge runs one level down, the nodes
\* between N and the root are among those other nodes.
C14_ToggleUnselect ==
  [][ \A id \in IdsOf(nodes) :
        (ToggleReturns(id) /\ IsSel(NodeById(nodes, id)) /\ LevelOf(nodes, id) # 0) =>
          LET away == SeqToSet(getHierarchyNodes(nodes, ParentsNow, ChildrenNow, id,
                                                 LevelOf(nodes, id) < 0, 0).seq)
              toward == SeqToSet(getHierarchyNodes(nodes, ParentsNow, ChildrenNow, id,
                                                   ~(LevelOf(nodes, id) < 0), 0).seq)
          IN  /\ id \notin SelectedIds(nodes')
              /\ away \cap SelectedIds(nodes') = {}
              /\ \A m \in IdsOf(nodes) \ (away \cup {id}) :
                   (m \in SelectedIds(nodes')) = (m \in SelectedIds(nodes))
              /\ LeveledEdges(nodes, edges) =>
                   \A m \in toward \ {id} :
                     (m \in SelectedIds(nodes')) = (m \in SelectedIds(nodes))
    ]_vars

\* a root, its child and its grandchild: after toggle on the selected child
\* only the root is still selected
C14_Witness ==
  /\ Len(nodes) = 3 /\ Len(edges) = 2
  /\ LevelOf(nodes, 1) = 0 /\ LevelOf(nodes, 2) = 1 /\ LevelOf(nodes, 3) = 2
  /\ last.op = "toggle" /\ last.id = 2 /\ ~last.threw /\ ~hung
  /\ SelectedIds(nodes) = {1}

(* ---------------------------- hierarchy closure ------------------------ *)
\* the nodes reachable from the nodes of R by one-hop steps of an index in
\* which every node stepped from has a level other than s
RECURSIVE ReachFrom(_, _, _, _)
ReachFrom(ns, idx, R, s) ==
  LET step == UNION { SeqToSet(idx[m]) : m \in { x \in R : LevelOf(ns, x) # s } }
  IN  IF step \subseteq R THEN R ELSE ReachFrom(ns, idx, R \cup step, s)

\* C15: in every state, the set of nodes of getHierarchyNodes(n, up, s) is
\* the set of nodes reachable from n by zero or more one-hop steps
\* (parentsByNodeId if up, childrenByNodeId otherwise) in which every node
\* stepped from has a level other than s; the seed is in the result, a seed
\* of level s yields exactly [seed], and for the root A and its child C
\* getHierarchyNodes(C, true, 0) is {C, A}.
C15_ClosureCorrectness ==
  \A id \in IdsOf(nodes), up \in BOOLEAN, s \in StopLevels :
    \E h \in {getHierarchyNodes(nodes, ParentsNow, ChildrenNow, id, up, s)} :
      ~h.diverges =>
        /\ SeqToSet(h.seq) =
             ReachFrom(nodes, IF up THEN ParentsNow ELSE ChildrenNow, {id}, s)
        /\ id \in SeqToSet(h.seq)
        /\ LevelOf(nodes, id) = s => h.seq = <<id>>
        /\ (FixtureGraph /\ id = 3 /\ up /\ s = 0) => SeqToSet(h.seq) = {3, 1}

\* getHierarchyNodes(C, true, 0) has just returned on the graph A, B, C
C15_Witness ==
  /\ FixtureGraph
  /\ last.op = "getHierarchyNodes" /\ last.id = 3 /\ ~hung
  /\ parentsCache.valid /\ parentsCache.map[3] = <<1>>

\* the number of times a node occurs in a sequence of nodes
Occurrences(seq, m) == Cardinality({ i \in 1..Len(seq) : seq[i] = m })

\* the number of expansion paths from a node x to a node m: the empty path
\* when x is m, and, when x is expanded, the paths from each of its one-hop
\* neighbours in index order (hops bounds the length of a path)
RECURSIVE PathsTo(_, _, _, _, _, _)
RECURSIVE PathsFromAll(_, _, _, _, _, _)
PathsTo(ns, idx, x, m, s, hops) ==
  (IF x = m THEN 1 ELSE 0)
  + (IF LevelOf(ns, x) # s /\ hops > 0
     THEN PathsFromAll(ns, idx, idx[x], m, s, hops - 1)
     ELSE 0)

PathsFromAll(ns, idx, xs, m, s, hops) ==
  IF xs = <<>> THEN 0
  ELSE PathsTo(ns, idx, Head(xs), m, s, hops) + PathsFromAll(ns, idx, Tail(xs), m, s, hops)

\* C16: getHierarchyNodes keeps no visited set: in the sequence it returns a
\* node appears once per distinct expansion path from the seed to it, so a
\* node reached over two converging paths appears twice, and the seed is
\* the first element.
C16_NoVisitedSet ==
  \A id \in IdsOf(nodes), up \in BOOLEAN, s \in StopLevels :
    \E h \in {getHierarchyNodes(nodes, ParentsNow, ChildrenNow, id, up, s)} :
      ~h.diverges =>
        /\ Head(h.seq) = id
        /\ \A m \in IdsOf(nodes) :
             Occurrences(h.seq, m) =
               PathsTo(nodes, IF up THEN ParentsNow ELSE ChildrenNow, id, m, s, Len(nodes))

\* A (level 0), B under A, C under B and linked to A as a second parent:
\* getHierarchyNodes(C, true, 0), just called, reaches A over C-B-A and over
\* C-A and returns it twice
C16_Witness ==
  /\ Len(nodes) = 3
  /\ LevelOf(nodes, 1) = 0 /\ LevelOf(nodes, 2) = 1 /\ LevelOf(nodes, 3) = 2
  /\ edges = << [from |-> 2, to |-> 1], [from |-> 3, to |-> 2], [from |-> 3, to |-> 1] >>
  /\ last.op = "getHierarchyNodes" /\ last.id = 3 /\ ~hung
  /\ parentsCache.valid /\ parentsCache.map[3] = <<2, 1>>
  /\ getHierarchyNodes(nodes, ParentsNow, ChildrenNow, 3, TRUE, 0).seq = <<3, 2, 1, 1>>

\* C17: on every graph reachable by addNode and addEdge calls whose node
\* arguments are nodes of the graph, also addNode calls that hit an existing
\* node and link it to another parent, getHierarchyNodes terminates for
\* every seed and both directions with stopAtLevel 0, and so does every
\* toggle(id) call with the id of a node.
C17_Termination ==
  /\ ~hung
  /\ \A id \in IdsOf(nodes), up \in BOOLEAN :
       ~getHierarchyNodes(nodes, ParentsNow, ChildrenNow, id, up, 0).diverges

(* ------------------- graphs of created nodes only ---------------------- *)
\* C18: on a graph built only by addNode calls that each create a node
\* under a parent of the graph, starting with nothing selected, after any
\* toggle calls every edge {from, to} satisfies: if level(from) >= 1 and
\* from is selected then to is selected, and if level(to) <= -1 and to is
\* selected then from is selected.
C18_ClosedTowardRoot ==
  \A k \in 1..Len(edges) :
    LET from == edges[k].from
        to == edges[k].to
    IN  /\ (LevelOf(nodes, from) >= 1 /\ from \in SelectedIds(nodes)) => to \in SelectedIds(nodes)
        /\ (LevelOf(nodes, to) <= -1 /\ to \in SelectedIds(nodes)) => from \in SelectedIds(nodes)

\* a root, its upstream node and the upstream node of that one: the nearer
\* one was selected, then the farther one, then the nearer one toggled
\* again, which unselected both and left the root selected
C18_Witness ==
  /\ Len(nodes) = 3
  /\ LevelOf(nodes, 1) = 0 /\ LevelOf(nodes, 2) = -1 /\ LevelOf(nodes, 3) = -2
  /\ edges = << [from |-> 1, to |-> 2], [from |-> 2, to |-> 3] >>
  /\ last.op = "toggle" /\ last.id = 2 /\ ~hung
  /\ SelectedIds(nodes) = {1}

\* C19: an addNode call that creates a node under a parent of the graph
\* keeps every edge running from a level to the level below (level(from) =
\* level(to) + 1), upstream as well as downstream, so a graph built by such
\* calls only has no other edge; an addNode call that hits an existing node
\* and links it to a parent changes no level and adds at most the edge
\* between the two, whatever their levels are.
C19_EdgesOneLevelDown ==
  [][ \A p \in Payloads, parent \in IdsOf(nodes), up \in BOOLEAN :
        AddNodeStep(p, parent, up) =>
          /\ (last'.created /\ LeveledEdges(nodes, edges)) =>
               /\ Len(edges') = Len(edges) + 1
               /\ LeveledEdges(nodes', edges')
          /\ ~last'.created =>
               /\ nodes' = nodes
               /\ edges' \in { edges,
                               Append(edges, [from |-> IF up THEN parent ELSE last'.id,
                                              to |-> IF up THEN last'.id ELSE parent]) }
    ]_vars

\* A, B under A and C under B, then an addNode call that hit C and linked it
\* to A: the new edge runs from level 2 to level 0
C19_Witness ==
  /\ Len(nodes) = 3
  /\ LevelOf(nodes, 1) = 0 /\ LevelOf(nodes, 2) = 1 /\ LevelOf(nodes, 3) = 2
  /\ last.op = "addNode" /\ ~last.created /\ last.id = 3
  /\ edges = << [from |-> 2, to |-> 1], [from |-> 3, to |-> 2], [from |-> 3, to |-> 1] >>
  /\ LeveledEdges(nodes, SubSeq(edges, 1, 2))
  /\ ~LeveledEdges(nodes, edges)

(* ------------------------------ frame of toggle ------------------------ *)
\* C20: a toggle(id) call changes nothing except selected flags: the number
\* and order of the nodes, the id, level, loaded and payload of every node,
\* the edges list and idGenerator are the same after the call as before it.
C20_ToggleFrame ==
  [][ last'.op = "toggle" =>
        /\ Len(nodes') = Len(nodes)
        /\ \A i \in 1..Len(nodes) :
             /\ nodes'[i].id = nodes[i].id
             /\ nodes'[i].level = nodes[i].level
             /\ nodes'[i].loaded = nodes[i].loaded
             /\ nodes'[i].payload = nodes[i].payload
        /\ edges' = edges
        /\ idGenerator' = idGenerator
    ]_vars

\* a root, its child and its grandchild after toggle on the grandchild
\* selected all three: ids, levels, payloads, edges and idGenerator as built
C20_Witness ==
  /\ uniqueKeys = <<"k1">>
  /\ Len(nodes) = 3 /\ idGenerator = 4
  /\ \A i \in 1..3 : nodes[i].id = i /\ nodes[i].level = i - 1 /\ nodes[i].payload = PayloadList[i]
  /\ edges = << [from |-> 2, to |-> 1], [from |-> 3, to |-> 2] >>
  /\ last.op = "toggle" /\ last.id = 3 /\ ~last.threw /\ ~hung
  /\ SelectedIds(nodes) = {1, 2, 3}

====
